---- MODULE Spec2Model ----
(***************************************************************************)
(* A model of the can-i-burn-app request path.                             *)
(*                                                                         *)
(*  - Spec:         one execution of the burn_restrictions route handler   *)
(*                  GET, cut at its three awaits (geocodeLocation,         *)
(*                  detectProvinceAndCounty, scrapeBurnRestrictions).      *)
(*                  The three library functions are upstream calls: the    *)
(*                  handler sees a value, a null or an exception.          *)
(*  - ClassifySpec: the status classifier mapStatusToUI applied to status  *)
(*                  texts built from a vocabulary of words.                *)
(*  - GeocodeSpec, LocateSpec, CoordinatorSpec: the geocoding client, the   *)
(*                  boundary index and the aggregation coordinator, whose  *)
(*                  code is outside src/, as their specification has them. *)
(*  - ConcurrentSpec: two executions of GET interleaved at their awaits.   *)
(*  - AppSpec:      the component FireRestrictionApp: searches, location   *)
(*                  requests, timers and the effects after each render.    *)
(*  - PageSpec:     the HomePage form and checkFireRestrictions, with the  *)
(*                  route answering its request.                           *)
(*  - CardSpec:     the province name shown by mapApiToUICard and by       *)
(*                  getProvinceName.                                       *)
(*                                                                         *)
(* JavaScript strings are sequences of one-character strings, so that      *)
(* toLowerCase, String.includes and parseFloat are computed, not assumed.  *)
(***************************************************************************)
EXTENDS Integers, Sequences, FiniteSets

VARIABLES
    pc,          \* position of the handler: idle, geocoding, detecting, scraping, responded
    latitude,    \* searchParams.get("latitude")
    longitude,   \* searchParams.get("longitude")
    location,    \* searchParams.get("location")
    lat,         \* let lat: number
    lon,         \* let lon: number
    province,    \* detectProvinceAndCounty(...).province
    county,      \* detectProvinceAndCounty(...).county
    response,    \* the NextResponse the handler returned
    calls,       \* the upstream calls the handler made, in order, with their arguments
    outcomes,    \* what each upstream call answered, in order
    geocoded,    \* the coordinate geocodeLocation answered, if it was asked
    burnStatus,  \* the argument of mapStatusToUI
    uiStatus,    \* the value mapStatusToUI returned
    statusIcon,  \* the icon getStatusIcon returned for the same text
    gcPc,        \* GeocodingClient.resolve: idle, calling, backoff, done
    gcAttempts,  \* upstream attempts made so far
    gcLog,       \* what the upstream answered to each attempt, in order
    gcDelay,     \* the wait before the next attempt
    gcResult,    \* what resolve returned: a Coordinate or a GeocodingFailure
    point,       \* the coordinate BoundaryIndex.locate is asked about
    located,     \* what each call of locate with that coordinate returned, in order
    coPc,        \* AggregationCoordinator.getReport: idle, fetching, done
    coSub,       \* the state of each sub-fetch of the request
    coReport,    \* the NormalizedReport getReport returned
    coTimedOut,  \* the request-level timeout fired
    coLate,      \* the results of cancelled sub-fetches that arrived afterwards
    parked,      \* the locals of a second execution of GET, suspended at an await
    isLoading,               \* FireRestrictionApp: useState(false)
    searchResults,           \* useState<UICardLocationData | null>(null)
    error,                   \* useState<string | null>(null)
    showLocationPermission,  \* useState(false)
    hasRequestedLocation,    \* useState(false)
    locationTimeout,         \* useState<NodeJS.Timeout | null>(null)
    coordinates,             \* useGeolocation().coordinates
    permission,              \* useGeolocation().permission
    hasRequestedBefore,      \* useGeolocation().hasRequestedBefore
    locating,                \* the handleLocationRequest call awaiting requestLocation()
    searches,                \* the handleSearch calls awaiting their response
    requests,                \* every request handleSearch sent, in order, with what started it
    timers,                  \* the armed 15-second timers
    timerCount,              \* the 15-second timers created so far
    showTimer,               \* the 1-second timer of the permission card is armed
    pageLocation,   \* HomePage: const [location, setLocation] = useState('')
    pageLatitude,   \* const [latitude, setLatitude] = useState('')
    pageLongitude,  \* const [longitude, setLongitude] = useState('')
    pageLoading,    \* const [loading, setLoading] = useState(false)
    pageResult,     \* const [result, setResult] = useState(null)
    pageError,      \* const [error, setError] = useState(null)
    pageUrl,        \* the query parameters of the url that checkFireRestrictions fetched
    apiData,        \* the response body handed to mapApiToUICard
    uiCard,         \* the card mapApiToUICard returned
    pageBadge       \* the province name HomePage shows for the same body

routeVars == <<pc, latitude, longitude, location, lat, lon, province, county,
               response, calls, outcomes, geocoded>>
classifyVars == <<burnStatus, uiStatus, statusIcon>>
vars == <<pc, latitude, longitude, location, lat, lon, province, county,
          response, calls, outcomes, geocoded, burnStatus, uiStatus, statusIcon,
          gcPc, gcAttempts, gcLog, gcDelay, gcResult, point, located,
          coPc, coSub, coReport, coTimedOut, coLate, parked,
          isLoading, searchResults, error, showLocationPermission,
          hasRequestedLocation, locationTimeout, coordinates, permission,
          hasRequestedBefore, locating, searches, requests, timers, timerCount,
          showTimer, pageLocation, pageLatitude, pageLongitude, pageLoading,
          pageResult, pageError, pageUrl, apiData, uiCard, pageBadge>>
pageVars == <<pageLocation, pageLatitude, pageLongitude, pageLoading, pageResult,
              pageError, pageUrl>>
cardVars == <<apiData, uiCard, pageBadge>>
appVars == <<isLoading, searchResults, error, showLocationPermission,
             hasRequestedLocation, locationTimeout, coordinates, permission,
             hasRequestedBefore, locating, searches, requests, timers, timerCount,
             showTimer>>
locateVars == <<point, located>>
coordinatorVars == <<coPc, coSub, coReport, coTimedOut, coLate>>
geocodeVars == <<gcPc, gcAttempts, gcLog, gcDelay, gcResult>>

\* what the route handler leaves alone, and what the classifier leaves alone
\* the components outside the request path of one execution of GET
libraryVars == <<classifyVars, geocodeVars, locateVars, coordinatorVars>>
clientVars == <<parked, appVars, pageVars, cardVars>>
nonRouteVars == <<libraryVars, clientVars>>
nonClassifyVars == <<routeVars, geocodeVars, locateVars, coordinatorVars, clientVars>>
nonGeocodeVars == <<routeVars, classifyVars, locateVars, coordinatorVars, clientVars>>
nonLocateVars == <<routeVars, classifyVars, geocodeVars, coordinatorVars, clientVars>>
nonCoordinatorVars == <<routeVars, classifyVars, geocodeVars, locateVars, clientVars>>
nonAppVars == <<routeVars, libraryVars, parked, pageVars, cardVars>>
nonPageVars == <<routeVars, libraryVars, parked, appVars, cardVars>>
nonCardVars == <<routeVars, libraryVars, parked, appVars, pageVars>>
nonConcurrentVars == <<libraryVars, appVars, pageVars, cardVars>>

-----------------------------------------------------------------------------
(* Bounds of the model *)

\* longest raw query parameter value
MaxParamLen == 3
\* most requests handleSearch sends in one behaviour of FireRestrictionApp
MaxSearches == 3
\* most calls of handleLocationRequest in one behaviour
MaxLocationRequests == 2
\* most words in a status text
MaxWords == 3
\* the coordinates asked of locate lie in -2..GridSize on both axes
GridSize == 9
\* most calls of locate with one coordinate
MaxLocateCalls == 2

-----------------------------------------------------------------------------
(* JavaScript values *)

\* null / undefined of a string-typed value
Null == "null"
\* a number that was declared and not assigned
Undefined == [kind |-> "undefined"]
NaN == [kind |-> "nan"]
Num(n) == [kind |-> "num", v |-> n]

\* a query parameter: searchParams.get gives null when the parameter is absent
Absent == [present |-> FALSE, text |-> <<>>]
Given(s) == [present |-> TRUE, text |-> s]

\* JavaScript truthiness of a string | null: null and "" are falsy
Truthy(p) == p.present /\ p.text # <<>>

RECURSIVE SeqsUpTo(_, _)
SeqsUpTo(S, n) ==
    IF n = 0 THEN {<<>>}
    ELSE LET shorter == SeqsUpTo(S, n - 1)
         IN  shorter \cup {Append(s, c) : s \in shorter, c \in S}

-----------------------------------------------------------------------------
(* parseFloat, on strings without white space, decimal point or exponent:   *)
(* an optional sign, then the longest prefix of digits; what follows the    *)
(* digits is ignored; no digit at all gives NaN.                            *)

Digits == {"0", "1", "2", "3", "4", "5", "6", "7", "8", "9"}

DigitValue(c) ==
    CASE c = "0" -> 0 [] c = "1" -> 1 [] c = "2" -> 2 [] c = "3" -> 3
      [] c = "4" -> 4 [] c = "5" -> 5 [] c = "6" -> 6 [] c = "7" -> 7
      [] c = "8" -> 8 [] c = "9" -> 9

RECURSIVE DigitPrefixLen(_)
DigitPrefixLen(s) ==
    IF s # <<>> /\ Head(s) \in Digits THEN 1 + DigitPrefixLen(Tail(s)) ELSE 0

RECURSIVE DecimalValue(_)
DecimalValue(s) ==
    IF s = <<>> THEN 0
    ELSE 10 * DecimalValue(SubSeq(s, 1, Len(s) - 1)) + DigitValue(s[Len(s)])

parseFloat(s) ==
    LET signed == s # <<>> /\ Head(s) \in {"-", "+"}
        body   == IF signed THEN Tail(s) ELSE s
        n      == DigitPrefixLen(body)
        value  == DecimalValue(SubSeq(body, 1, n))
    IN  IF n = 0 THEN NaN
        ELSE IF signed /\ Head(s) = "-" THEN Num(0 - value) ELSE Num(value)

isNaN(x) == x.kind = "nan"

-----------------------------------------------------------------------------
(* The upstream library functions, as the handler sees them *)

\* characters of the raw latitude / longitude values
ParamAlphabet == {"1", "9", "-", "x"}
RawParams == {Absent} \cup {Given(s) : s \in SeqsUpTo(ParamAlphabet, MaxParamLen)}
RawLocations == {Absent, Given(<<>>), Given(<<"V">>)}

\* geocodeLocation: a coordinate, or null
NoCoords == [found |-> FALSE]
Coords(a, o) == [found |-> TRUE, lat |-> Num(a), lon |-> Num(o)]
GeocodeAnswers == {NoCoords, Coords(46, -63), Coords(49, -123), Coords(19, -11)}

\* detectProvinceAndCounty: {province, county}, either of them possibly null
DetectAnswers ==
    { [province |-> Null,  county |-> Null],
      [province |-> "",    county |-> Null],
      [province |-> "PEI", county |-> "PRINCE"],
      [province |-> "BC",  county |-> Null] }

\* scrapeBurnRestrictions: a report, or null
NoReport == [found |-> FALSE]
Report(status, fallback) ==
    [found |-> TRUE, burn_status |-> status, fallback |-> fallback]
ScrapeAnswers ==
    {NoReport, Report("no fires", FALSE), Report("open burning", FALSE),
     Report("unknown", TRUE)}

-----------------------------------------------------------------------------
(* NextResponse *)

NoResponse == [status |-> 0]

\* NextResponse.json(body, {status}): no Cache-Control header of its own
Json(body, status) ==
    [status |-> status, body |-> body, cacheControl |-> {}]

ErrorBody(message) == [error |-> message]

GeocodeNotFound == Json(ErrorBody("Could not find coordinates for location"), 400)
CoordinatesRequired == Json(ErrorBody("Latitude and longitude are required"), 400)
InvalidCoordinates == Json(ErrorBody("Invalid latitude or longitude"), 400)
OutsideSupported ==
    Json(ErrorBody("Location is outside supported provinces and territories"), 400)
CouldNotFetch == Json(ErrorBody("Could not fetch burn restrictions"), 500)
InternalServerError == Json(ErrorBody("Internal server error"), 500)

\* the success response, with the cache-busting headers set on it
Success(a, o, p, c, restrictions) ==
    [status |-> 200,
     body |-> [latitude |-> a, longitude |-> o, province |-> p, county |-> c,
               burn_status |-> restrictions.burn_status,
               fallback |-> restrictions.fallback],
     cacheControl |-> {"no-cache", "no-store", "must-revalidate"}]

-----------------------------------------------------------------------------
(* The handler GET *)

Call(fn, args) == [fn |-> fn, args |-> args]
Called(fn) == \E i \in 1..Len(calls) : calls[i].fn = fn
Answered(fn, what) ==
    \E i \in 1..Len(outcomes) : outcomes[i] = [fn |-> fn, what |-> what]

NeedsGeocode_TextFirst(la, lo, loc) == Truthy(loc)

\* if (location && (!latitude || !longitude))
NeedsGeocode(la, lo, loc) == Truthy(loc) /\ (~Truthy(la) \/ ~Truthy(lo))

\* else if (latitude && longitude)
HasCoordinates(la, lo) == Truthy(la) /\ Truthy(lo)

CoordsMissing_Never(coords) == FALSE

\* if (!coords)
CoordsMissing(coords) == coords = NoCoords

ProvinceMissing_Never(p) == FALSE

\* if (!province)
ProvinceMissing(p) == p = Null \/ p = ""

ResolvedFromGeocode_Swapped(coords) == <<coords.lon, coords.lat>>

\* lat = coords.lat; lon = coords.lon
ResolvedFromGeocode(coords) == <<coords.lat, coords.lon>>

\* if (!restrictions)
RestrictionsMissing(r) == r = NoReport

Respond(r) ==
    /\ pc' = "responded"
    /\ response' = r

\* "Validate coordinates", then the call of detectProvinceAndCounty
ValidateAndDetect(a, o) ==
    IF isNaN(a) \/ isNaN(o)
    THEN /\ Respond(InvalidCoordinates)
         /\ UNCHANGED calls
    ELSE /\ pc' = "detecting"
         /\ calls' = Append(calls, Call("detectProvinceAndCounty", <<a, o>>))
         /\ UNCHANGED response

\* The handler from its entry to its first await or return
Start(la, lo, loc) ==
    /\ pc = "idle"
    /\ latitude' = la
    /\ longitude' = lo
    /\ location' = loc
    /\ IF NeedsGeocode(la, lo, loc)
       THEN /\ pc' = "geocoding"
            /\ calls' = Append(calls, Call("geocodeLocation", <<loc.text>>))
            /\ UNCHANGED <<lat, lon, response>>
       ELSE IF HasCoordinates(la, lo)
       THEN /\ lat' = parseFloat(la.text)
            /\ lon' = parseFloat(lo.text)
            /\ ValidateAndDetect(parseFloat(la.text), parseFloat(lo.text))
       ELSE /\ Respond(CoordinatesRequired)
            /\ UNCHANGED <<lat, lon, calls>>
    /\ UNCHANGED <<province, county, outcomes, geocoded>>
    /\ UNCHANGED nonRouteVars

\* geocodeLocation resolved with coords
GeocodeReturn(coords) ==
    /\ pc = "geocoding"
    /\ outcomes' = Append(outcomes,
           [fn |-> "geocodeLocation",
            what |-> IF coords = NoCoords THEN "null" ELSE "value"])
    /\ IF CoordsMissing(coords)
       THEN /\ Respond(GeocodeNotFound)
            /\ UNCHANGED <<lat, lon, calls>>
       ELSE IF coords = NoCoords
       THEN \* coords.lat of null is a TypeError, which the catch turns into a 500
            /\ Respond(InternalServerError)
            /\ UNCHANGED <<lat, lon, calls>>
       ELSE /\ lat' = ResolvedFromGeocode(coords)[1]
            /\ lon' = ResolvedFromGeocode(coords)[2]
            /\ ValidateAndDetect(ResolvedFromGeocode(coords)[1],
                                 ResolvedFromGeocode(coords)[2])
    /\ geocoded' = coords
    /\ UNCHANGED <<latitude, longitude, location, province, county>>
    /\ UNCHANGED nonRouteVars

\* detectProvinceAndCounty resolved with {province, county}
DetectReturn(d) ==
    /\ pc = "detecting"
    /\ outcomes' = Append(outcomes,
           [fn |-> "detectProvinceAndCounty",
            what |-> IF d.province \in {Null, ""} THEN "null" ELSE "value"])
    /\ province' = d.province
    /\ county' = d.county
    /\ IF ProvinceMissing(d.province)
       THEN /\ Respond(OutsideSupported)
            /\ UNCHANGED calls
       ELSE /\ pc' = "scraping"
            /\ calls' = Append(calls,
                   Call("scrapeBurnRestrictions", <<d.province, d.county, lat, lon>>))
            /\ UNCHANGED response
    /\ UNCHANGED <<latitude, longitude, location, lat, lon, geocoded>>
    /\ UNCHANGED nonRouteVars

\* scrapeBurnRestrictions resolved with restrictions
ScrapeCalls ==
    Cardinality({i \in 1..Len(calls) : calls[i].fn = "scrapeBurnRestrictions"})

ScrapeReturn_Retry(r) ==
    /\ pc = "scraping"
    /\ outcomes' = Append(outcomes,
           [fn |-> "scrapeBurnRestrictions",
            what |-> IF r = NoReport THEN "null" ELSE "value"])
    /\ IF RestrictionsMissing(r) /\ ScrapeCalls < 2
       THEN /\ calls' = Append(calls,
                   Call("scrapeBurnRestrictions", <<province, county, lat, lon>>))
            /\ UNCHANGED <<pc, response>>
       ELSE /\ IF RestrictionsMissing(r)
               THEN Respond(CouldNotFetch)
               ELSE Respond(Success(lat, lon, province, county, r))
            /\ UNCHANGED calls
    /\ UNCHANGED <<latitude, longitude, location, lat, lon, province, county, geocoded>>
    /\ UNCHANGED nonRouteVars

ScrapeReturn(r) ==
    /\ pc = "scraping"
    /\ outcomes' = Append(outcomes,
           [fn |-> "scrapeBurnRestrictions",
            what |-> IF r = NoReport THEN "null" ELSE "value"])
    /\ IF RestrictionsMissing(r)
       THEN Respond(CouldNotFetch)
       ELSE Respond(Success(lat, lon, province, county, r))
    /\ UNCHANGED <<latitude, longitude, location, lat, lon, province, county, calls,
                   geocoded>>
    /\ UNCHANGED nonRouteVars

AwaitedFn ==
    CASE pc = "geocoding" -> "geocodeLocation"
      [] pc = "detecting" -> "detectProvinceAndCounty"
      [] pc = "scraping"  -> "scrapeBurnRestrictions"
      [] OTHER -> "none"

\* the awaited call rejected: catch (error)
Catch ==
    /\ pc \in {"geocoding", "detecting", "scraping"}
    /\ outcomes' = Append(outcomes, [fn |-> AwaitedFn, what |-> "throw"])
    /\ Respond(InternalServerError)
    /\ UNCHANGED <<latitude, longitude, location, lat, lon, province, county, calls,
                   geocoded>>
    /\ UNCHANGED nonRouteVars

\* a request arrives: const { searchParams } = new URL(request.url)
Request ==
    /\ pc = "idle"
    /\ \E la \in RawParams, lo \in RawParams, loc \in RawLocations : Start(la, lo, loc)

RouteIdle ==
    /\ pc = "idle"
    /\ latitude = Absent
    /\ longitude = Absent
    /\ location = Absent
    /\ lat = Undefined
    /\ lon = Undefined
    /\ province = Null
    /\ county = Null
    /\ response = NoResponse
    /\ calls = <<>>
    /\ outcomes = <<>>
    /\ geocoded = NoCoords

ClassifyIdle ==
    /\ burnStatus = Absent
    /\ uiStatus = "pending"
    /\ statusIcon = "pending"

\* GeocodingClient before resolve is called
GeocodeIdle ==
    /\ gcPc = "idle"
    /\ gcAttempts = 0
    /\ gcLog = <<>>
    /\ gcDelay = 0
    /\ gcResult = [kind |-> "none"]

\* BoundaryIndex before any query
LocateIdle ==
    /\ point = <<0, 0>>
    /\ located = <<>>

\* AggregationCoordinator before getReport is called
CoordinatorIdle ==
    /\ coPc = "idle"
    /\ coSub = <<>>
    /\ coReport = [kind |-> "none"]
    /\ coTimedOut = FALSE
    /\ coLate = {}

\* the locals of an execution of GET, as a record
Locals ==
    [pc |-> pc, latitude |-> latitude, longitude |-> longitude, location |-> location,
     lat |-> lat, lon |-> lon, province |-> province, county |-> county,
     response |-> response, calls |-> calls, outcomes |-> outcomes,
     geocoded |-> geocoded]

\* no second request yet
ParkedIdle ==
    parked = [pc |-> "idle", latitude |-> Absent, longitude |-> Absent,
              location |-> Absent, lat |-> Undefined, lon |-> Undefined,
              province |-> Null, county |-> Null, response |-> NoResponse,
              calls |-> <<>>, outcomes |-> <<>>, geocoded |-> NoCoords]

\* null of a piece of React state
NullState == [kind |-> "null"]
NoTimer == 0

\* FireRestrictionApp not mounted
AppIdle ==
    /\ isLoading = FALSE
    /\ searchResults = NullState
    /\ error = NullState
    /\ showLocationPermission = FALSE
    /\ hasRequestedLocation = FALSE
    /\ locationTimeout = NoTimer
    /\ coordinates = NullState
    /\ permission = "unknown"
    /\ hasRequestedBefore = FALSE
    /\ locating = NullState
    /\ searches = {}
    /\ requests = <<>>
    /\ timers = {}
    /\ timerCount = 0
    /\ showTimer = FALSE

\* HomePage with its form empty
PageIdle ==
    /\ pageLocation = <<>>
    /\ pageLatitude = <<>>
    /\ pageLongitude = <<>>
    /\ pageLoading = FALSE
    /\ pageResult = NullState
    /\ pageError = NullState
    /\ pageUrl = NullState

\* no response body to show
CardIdle ==
    /\ apiData = NullState
    /\ uiCard = NullState
    /\ pageBadge = NullState

ClientIdle == ParkedIdle /\ AppIdle /\ PageIdle /\ CardIdle

Init ==
    RouteIdle /\ ClassifyIdle /\ GeocodeIdle /\ LocateIdle /\ CoordinatorIdle /\ ClientIdle

Next ==
    \/ Request
    \/ \E coords \in GeocodeAnswers : GeocodeReturn(coords)
    \/ \E d \in DetectAnswers : DetectReturn(d)
    \/ \E r \in ScrapeAnswers : ScrapeReturn(r)
    \/ Catch

Spec == Init /\ [][Next]_vars

-----------------------------------------------------------------------------
(* The status classifier mapStatusToUI *)

\* String.prototype.toLowerCase, on the letters the status texts use
LowerChar(c) ==
    CASE c = "A" -> "a" [] c = "B" -> "b" [] c = "N" -> "n" [] c = "O" -> "o"
      [] c = "P" -> "p" [] c = "R" -> "r" [] OTHER -> c

toLowerCase(s) == [i \in 1..Len(s) |-> LowerChar(s[i])]

\* String.prototype.includes
includes(s, sub) ==
    \E i \in 0..(Len(s) - Len(sub)) : SubSeq(s, i + 1, i + Len(sub)) = sub

KwNoFires == <<"n", "o", " ", "f", "i", "r", "e", "s">>
KwNoFire == <<"n", "o", " ", "f", "i", "r", "e">>
KwBanned == <<"b", "a", "n", "n", "e", "d">>
KwBan == <<"b", "a", "n">>
KwRestricted == <<"r", "e", "s", "t", "r", "i", "c", "t", "e", "d">>
KwOpen == <<"o", "p", "e", "n">>
KwAllowed == <<"a", "l", "l", "o", "w", "e", "d">>
KwPermitted == <<"p", "e", "r", "m", "i", "t", "t", "e", "d">>

mapStatusToUI_BannedOnly(b) ==
    LET s == toLowerCase(IF Truthy(b) THEN b.text ELSE <<>>)
    IN  IF includes(s, KwBanned) THEN "BANNED"
        ELSE IF includes(s, KwRestricted) THEN "RESTRICTED"
        ELSE IF includes(s, KwOpen) \/ includes(s, KwAllowed) \/ includes(s, KwPermitted)
        THEN "ALLOWED"
        ELSE "UNKNOWN"

mapStatusToUI(b) ==
    LET s == toLowerCase(IF Truthy(b) THEN b.text ELSE <<>>)
    IN  IF includes(s, KwNoFires) \/ includes(s, KwNoFire) \/ includes(s, KwBanned)
        THEN "BANNED"
        ELSE IF includes(s, KwRestricted) THEN "RESTRICTED"
        ELSE IF includes(s, KwOpen) \/ includes(s, KwAllowed) \/ includes(s, KwPermitted)
        THEN "ALLOWED"
        ELSE "UNKNOWN"

\* getStatusIcon of the enhanced report card: a switch on the lower-cased text
getStatusIcon(status) ==
    LET s == toLowerCase(status)
    IN  CASE s = <<"n", "o", " ", "f", "i", "r", "e", "s">> -> "Ban"
          [] s = <<"r", "e", "s", "t", "r", "i", "c", "t", "e", "d", " ", "b", "u", "r", "n", "i", "n", "g">>
               -> "AlertTriangle"
          [] s = <<"o", "p", "e", "n", " ", "b", "u", "r", "n", "i", "n", "g">> -> "CheckCircle"
          [] OTHER -> "HelpCircle"

\* the words status texts are made of
Vocabulary ==
    { <<"N", "o">>,
      <<"n", "o">>,
      <<"B", "u", "r", "n", "i", "n", "g">>,
      <<"b", "u", "r", "n", "i", "n", "g">>,
      <<"f", "i", "r", "e">>,
      <<"f", "i", "r", "e", "s">>,
      <<"b", "a", "n">>,
      <<"b", "a", "n", "n", "e", "d">>,
      <<"R", "e", "s", "t", "r", "i", "c", "t", "e", "d">>,
      <<"r", "e", "s", "t", "r", "i", "c", "t", "e", "d">>,
      <<"O", "p", "e", "n">>,
      <<"o", "p", "e", "n">>,
      <<"A", "l", "l", "o", "w", "e", "d">>,
      <<"a", "l", "l", "o", "w", "e", "d">>,
      <<"P", "e", "r", "m", "i", "t", "t", "e", "d">>,
      <<"p", "e", "r", "m", "i", "t", "t", "e", "d">>,
      <<"u", "n", "k", "n", "o", "w", "n">> }

RECURSIVE Join(_)
Join(ws) ==
    IF ws = <<>> THEN <<>>
    ELSE IF Len(ws) = 1 THEN ws[1]
    ELSE ws[1] \o <<" ">> \o Join(Tail(ws))

StatusTexts == {Join(ws) : ws \in SeqsUpTo(Vocabulary, MaxWords)}

\* data.burn_status of a response: a text, or missing
BurnStatusInputs == {Absent} \cup {Given(t) : t \in StatusTexts}

ClassifyInit ==
    /\ RouteIdle
    /\ GeocodeIdle
    /\ LocateIdle
    /\ CoordinatorIdle
    /\ ClientIdle
    /\ burnStatus \in BurnStatusInputs
    /\ uiStatus = "pending"
    /\ statusIcon = "pending"

\* const uiStatus = mapStatusToUI(data.burn_status)
Classify ==
    /\ uiStatus = "pending"
    /\ uiStatus' = mapStatusToUI(burnStatus)
    /\ UNCHANGED <<burnStatus, statusIcon>>
    /\ UNCHANGED nonClassifyVars

\* React.createElement(getStatusIcon(status), ...), for a status string
RenderStatusIcon ==
    /\ statusIcon = "pending"
    /\ burnStatus.present
    /\ statusIcon' = getStatusIcon(burnStatus.text)
    /\ UNCHANGED <<burnStatus, uiStatus>>
    /\ UNCHANGED nonClassifyVars

ClassifyNext == Classify \/ RenderStatusIcon

ClassifySpec == ClassifyInit /\ [][ClassifyNext]_vars

-----------------------------------------------------------------------------
(* Vocabulary of the properties *)

Responded == pc = "responded"
Is4xx(r) == r.status >= 400 /\ r.status < 500
Is5xx(r) == r.status >= 500 /\ r.status < 600
IsErrorEnvelope(r) == DOMAIN r.body = {"error"}

\* the whole string is a decimal numeral: an optional sign, then digits only
IsNumeral(s) ==
    LET body == IF s # <<>> /\ Head(s) \in {"-", "+"} THEN Tail(s) ELSE s
    IN  body # <<>> /\ DigitPrefixLen(body) = Len(body)

InRange(x, low, high) == x.kind = "num" /\ low <= x.v /\ x.v <= high

\* the request gives a coordinate that is non-numeric or out of range
BadCoordinate(la, lo) ==
    \/ ~IsNumeral(la.text)
    \/ ~IsNumeral(lo.text)
    \/ ~InRange(parseFloat(la.text), -90, 90)
    \/ ~InRange(parseFloat(lo.text), -180, 180)

SourceFetchFailed ==
    \/ Answered("scrapeBurnRestrictions", "null")
    \/ Answered("scrapeBurnRestrictions", "throw")

-----------------------------------------------------------------------------
(* Properties of the route handler, under Spec *)

\* C1: when the source fetch fails (a null result or an exception of
\* scrapeBurnRestrictions), the request ends with a successful report whose
\* status is UNKNOWN and whose source is flagged as a fallback.
C1_SourceFailureDegrades ==
    (Responded /\ SourceFetchFailed) =>
        /\ response.status = 200
        /\ response.body.burn_status = "unknown"
        /\ response.body.fallback

\* C2: a failure or an exception in geocoding, in province detection or in a
\* source fetch never produces a 5xx response. (A null report is left out: it
\* is the one answer that may stand for a province without an adapter.)
C2_UpstreamFailureIsNever5xx ==
    (/\ Responded
     /\ \/ Answered("geocodeLocation", "null")
        \/ Answered("geocodeLocation", "throw")
        \/ Answered("detectProvinceAndCounty", "null")
        \/ Answered("detectProvinceAndCounty", "throw")
        \/ Answered("scrapeBurnRestrictions", "throw"))
    => ~Is5xx(response)

\* C3: a request whose latitude is outside [-90, 90], whose longitude is
\* outside [-180, 180] or whose coordinate is non-numeric is rejected with an
\* invalid-input error before province detection is invoked.
C3_BadCoordinateRejectedBeforeDetection ==
    (pc # "idle" /\ HasCoordinates(latitude, longitude)
                 /\ BadCoordinate(latitude, longitude))
    => /\ ~Called("detectProvinceAndCounty")
       /\ Responded => response = InvalidCoordinates

\* C4: a request that carries a latitude, a longitude and a location text never
\* calls the geocoder, and the coordinate it resolves is the one of the request.
C4_CoordinatesTakePrecedence ==
    (pc # "idle" /\ Truthy(latitude) /\ Truthy(longitude) /\ Truthy(location))
    => /\ ~Called("geocodeLocation")
       /\ lat = parseFloat(latitude.text)
       /\ lon = parseFloat(longitude.text)
       /\ latitude.text = <<"1", "9">> => lat = Num(19)
       /\ longitude.text = <<"-", "1", "1">> => lon = Num(-11)
       /\ \A i \in 1..Len(calls) :
              calls[i].fn = "detectProvinceAndCounty" => calls[i].args = <<lat, lon>>
       /\ response.status = 200 =>
              /\ response.body.latitude = lat
              /\ response.body.longitude = lon

C4_Witness ==
    /\ Responded
    /\ Truthy(location)
    /\ latitude.text = <<"1", "9">>
    /\ longitude.text = <<"-", "1", "1">>
    /\ response.status = 200
    /\ response.body.latitude = Num(19)
    /\ response.body.longitude = Num(-11)

\* C5: a request with no location text in which latitude or longitude is absent
\* or non-numeric is answered with a 4xx, and neither geocoding, province
\* detection nor a source fetch is invoked for it.
C5_MissingOrNonNumericIsClientError ==
    (/\ pc # "idle"
     /\ ~Truthy(location)
     /\ \/ ~Truthy(latitude)
        \/ ~Truthy(longitude)
        \/ ~IsNumeral(latitude.text)
        \/ ~IsNumeral(longitude.text))
    => /\ calls = <<>>
       /\ Responded
       /\ Is4xx(response)

\* C6: when geocoding yields no coordinate, the request ends with a 4xx error
\* envelope, and neither province detection nor a source fetch is invoked.
C6_GeocodingMissIsClientError ==
    Answered("geocodeLocation", "null")
    => /\ Responded
       /\ Is4xx(response)
       /\ IsErrorEnvelope(response)
       /\ ~Called("detectProvinceAndCounty")
       /\ ~Called("scrapeBurnRestrictions")

C6_Witness ==
    /\ Answered("geocodeLocation", "null")
    /\ Truthy(location)
    /\ response = GeocodeNotFound

\* C7: when a valid coordinate resolves to no province, the request ends with a
\* 4xx error carrying a descriptive message, and the source fetch is never
\* invoked.
C7_NoProvinceIsClientError ==
    Answered("detectProvinceAndCounty", "null")
    => /\ Responded
       /\ Is4xx(response)
       /\ IsErrorEnvelope(response)
       /\ response.body.error = "Location is outside supported provinces and territories"
       /\ ~Called("scrapeBurnRestrictions")

C7_Witness ==
    /\ Answered("detectProvinceAndCounty", "null")
    /\ lat = Num(19)
    /\ lon = Num(-11)
    /\ response = OutsideSupported

\* C8: every response of the route, on the success path and on every error
\* path, carries a Cache-Control header containing no-store.
C8_EveryResponseNoStore ==
    Responded => "no-store" \in response.cacheControl

-----------------------------------------------------------------------------
(* Properties of the status classifier, under ClassifySpec *)

Classified == uiStatus # "pending"
LowerText == toLowerCase(burnStatus.text)

\* the documented keyword table, applied in its listed order
TableStatus(s) ==
    IF includes(s, KwNoFire) \/ includes(s, KwBan) THEN "BANNED"
    ELSE IF includes(s, KwRestricted) THEN "RESTRICTED"
    ELSE IF includes(s, KwOpen) \/ includes(s, KwAllowed) \/ includes(s, KwPermitted)
    THEN "ALLOWED"
    ELSE "UNKNOWN"

\* C9: matching case-insensitively, "No Burning" is BANNED, "Restricted
\* Burning Permitted" is RESTRICTED, "Open Burning Allowed" is OPEN (ALLOWED),
\* and the empty string or an unrecognized text is UNKNOWN.
C9_DocumentedExamples ==
    Classified =>
        /\ LowerText = <<"n", "o", " ", "b", "u", "r", "n", "i", "n", "g">> => uiStatus = "BANNED"
        /\ LowerText = <<"r", "e", "s", "t", "r", "i", "c", "t", "e", "d", " ", "b", "u", "r", "n", "i", "n", "g", " ", "p", "e", "r", "m", "i", "t", "t", "e", "d">>
               => uiStatus = "RESTRICTED"
        /\ LowerText = <<"o", "p", "e", "n", " ", "b", "u", "r", "n", "i", "n", "g", " ", "a", "l", "l", "o", "w", "e", "d">>
               => uiStatus = "ALLOWED"
        /\ LowerText = <<>> => uiStatus = "UNKNOWN"
        /\ TableStatus(LowerText) = "UNKNOWN" /\ LowerText # <<"n", "o", " ", "b", "u", "r", "n", "i", "n", "g">>
               => uiStatus = "UNKNOWN"

\* C10: for every status text the classifier agrees with the documented
\* keyword table applied in its listed order, and a missing or unmatched text
\* is never classified OPEN or BANNED.
C10_AgreesWithKeywordTable ==
    Classified =>
        /\ uiStatus = TableStatus(LowerText)
        /\ TableStatus(LowerText) = "UNKNOWN" => uiStatus \notin {"ALLOWED", "BANNED"}

\* the burn_status strings of the response envelope
BurnStatusStrings ==
    { <<"n", "o", " ", "f", "i", "r", "e", "s">>,
      <<"r", "e", "s", "t", "r", "i", "c", "t", "e", "d", " ", "b", "u", "r", "n", "i", "n", "g">>,
      <<"o", "p", "e", "n", " ", "b", "u", "r", "n", "i", "n", "g">>,
      <<"u", "n", "k", "n", "o", "w", "n">> }

\* C11: the four burn_status strings "no fires", "restricted burning", "open
\* burning" and "unknown" go to BANNED, RESTRICTED, ALLOWED and UNKNOWN, four
\* different values, and getStatusIcon gives them four different icons.
C11_StatusStringsOneToOne ==
    /\ Classified =>
        /\ LowerText = <<"n", "o", " ", "f", "i", "r", "e", "s">> => uiStatus = "BANNED"
        /\ LowerText = <<"r", "e", "s", "t", "r", "i", "c", "t", "e", "d", " ", "b", "u", "r", "n", "i", "n", "g">>
               => uiStatus = "RESTRICTED"
        /\ LowerText = <<"o", "p", "e", "n", " ", "b", "u", "r", "n", "i", "n", "g">>
               => uiStatus = "ALLOWED"
        /\ LowerText = <<"u", "n", "k", "n", "o", "w", "n">> => uiStatus = "UNKNOWN"
    /\ statusIcon # "pending" =>
        /\ LowerText = <<"n", "o", " ", "f", "i", "r", "e", "s">> => statusIcon = "Ban"
        /\ LowerText = <<"r", "e", "s", "t", "r", "i", "c", "t", "e", "d", " ", "b", "u", "r", "n", "i", "n", "g">>
               => statusIcon = "AlertTriangle"
        /\ LowerText = <<"o", "p", "e", "n", " ", "b", "u", "r", "n", "i", "n", "g">>
               => statusIcon = "CheckCircle"
        /\ LowerText = <<"u", "n", "k", "n", "o", "w", "n">> => statusIcon = "HelpCircle"
    /\ (Classified /\ statusIcon # "pending" /\ LowerText \in BurnStatusStrings) =>
        /\ uiStatus = "BANNED" <=> statusIcon = "Ban"
        /\ uiStatus = "RESTRICTED" <=> statusIcon = "AlertTriangle"
        /\ uiStatus = "ALLOWED" <=> statusIcon = "CheckCircle"
        /\ uiStatus = "UNKNOWN" <=> statusIcon = "HelpCircle"

C11_Witness ==
    /\ burnStatus.text = <<"n", "o", " ", "f", "i", "r", "e", "s">>
    /\ uiStatus = "BANNED"
    /\ statusIcon = "Ban"

-----------------------------------------------------------------------------
(* More properties of the route handler, under Spec *)

\* C12: a location text that the geocoder resolves to a coordinate c is
\* resolved as the request made directly with latitude/longitude c is: the
\* handler holds c as (lat, lon), and on either path province detection gets
\* exactly (lat, lon), the source fetch gets what detection answered, and the
\* report carries that province and sub-region.
C12_TextPathSharesResolution ==
    /\ geocoded # NoCoords =>
        /\ lat = geocoded.lat
        /\ lon = geocoded.lon
        /\ Called("detectProvinceAndCounty")
    /\ \A i \in 1..Len(calls) :
        /\ calls[i].fn = "detectProvinceAndCounty" => calls[i].args = <<lat, lon>>
        /\ calls[i].fn = "scrapeBurnRestrictions" =>
               calls[i].args = <<province, county, lat, lon>>
    /\ response.status = 200 =>
        /\ response.body.latitude = lat
        /\ response.body.longitude = lon
        /\ response.body.province = province
        /\ response.body.county = county

C12_Witness ==
    /\ Responded
    /\ geocoded = Coords(19, -11)
    /\ calls[2] = Call("detectProvinceAndCounty", <<Num(19), Num(-11)>>)
    /\ response.status = 200
    /\ response.body.province = "PEI"
    /\ response.body.county = "PRINCE"

-----------------------------------------------------------------------------
(* GeocodingClient.resolve: bounded retry with exponential backoff and       *)
(* jitter; a definitive "not found" aborts, a transient answer is retried.   *)

\* the fixed maximum number of attempts
MaxAttempts == 3
\* the base delay of the backoff
BaseDelay == 1
\* the largest jitter added to a delay
MaxJitter == 2

TransientCauses == {"network", "5xx", "rate-limit"}

Found(a, o) == [kind |-> "found", lat |-> a, lon |-> o]
NotFound == [kind |-> "not-found", cause |-> "not-found"]
Transient(cause) == [kind |-> "transient", cause |-> cause]

\* what the upstream geocoding service can answer to one attempt
UpstreamAnswers ==
    {Found(46, -63), Found(49, -123), Found(19, -11), NotFound}
        \cup {Transient(c) : c \in TransientCauses}

GeocodingSuccess(a) == [kind |-> "coordinate", lat |-> a.lat, lon |-> a.lon]
GeocodingFailure(cause) == [kind |-> "failure", cause |-> cause]

IsDefinitive_Never(a) == FALSE

\* a definitive "not found": a confirmed empty result, not worth retrying
IsDefinitive(a) == a.kind = "not-found"

ShouldRetry_OneShort(n) == n < MaxAttempts - 1

\* another attempt is left in the retry budget
ShouldRetry(n) == n < MaxAttempts

LastCause_First(log) == log[1].cause

\* the underlying cause of the last attempt
LastCause(log) == log[Len(log)].cause

RECURSIVE Pow2(_)
Pow2(n) == IF n = 0 THEN 1 ELSE 2 * Pow2(n - 1)

\* exponential backoff with jitter, before attempt n + 1
Backoff(n, jitter) == BaseDelay * Pow2(n - 1) + jitter

\* resolve(text) is called: the first upstream attempt is issued
Resolve ==
    /\ gcPc = "idle"
    /\ gcPc' = "calling"
    /\ gcAttempts' = 1
    /\ UNCHANGED <<gcLog, gcDelay, gcResult>>
    /\ UNCHANGED nonGeocodeVars

\* the upstream answers the pending attempt with a
UpstreamAnswer(a, jitter) ==
    /\ gcPc = "calling"
    /\ gcLog' = Append(gcLog, a)
    /\ IF a.kind = "found"
       THEN /\ gcPc' = "done"
            /\ gcResult' = GeocodingSuccess(a)
            /\ UNCHANGED gcDelay
       ELSE IF IsDefinitive(a)
       THEN /\ gcPc' = "done"
            /\ gcResult' = GeocodingFailure(a.cause)
            /\ UNCHANGED gcDelay
       ELSE IF ShouldRetry(gcAttempts)
       THEN /\ gcPc' = "backoff"
            /\ gcDelay' = Backoff(gcAttempts, jitter)
            /\ UNCHANGED gcResult
       ELSE /\ gcPc' = "done"
            /\ gcResult' = GeocodingFailure(LastCause(gcLog'))
            /\ UNCHANGED gcDelay
    /\ UNCHANGED gcAttempts
    /\ UNCHANGED nonGeocodeVars

\* the backoff delay elapsed: the next attempt is issued
BackoffElapsed ==
    /\ gcPc = "backoff"
    /\ gcPc' = "calling"
    /\ gcAttempts' = gcAttempts + 1
    /\ gcDelay' = 0
    /\ UNCHANGED <<gcLog, gcResult>>
    /\ UNCHANGED nonGeocodeVars

GeocodeNext ==
    \/ Resolve
    \/ \E a \in UpstreamAnswers, jitter \in 0..MaxJitter : UpstreamAnswer(a, jitter)
    \/ BackoffElapsed

GeocodeSpec == Init /\ [][GeocodeNext]_vars

\* every upstream call runs under a timeout, so each attempt is answered, and
\* every backoff delay elapses
GeocodeFairSpec == GeocodeSpec /\ WF_vars(GeocodeNext)

-----------------------------------------------------------------------------
(* Properties of GeocodingClient.resolve, under GeocodeSpec *)

AllTransient(log) == \A i \in 1..Len(log) : log[i].kind = "transient"
GcDone == gcPc = "done"

\* C13: against an upstream that fails transiently twice and then succeeds,
\* resolve does not give up before the third attempt and returns the
\* coordinate of the successful answer.
C13_SucceedsAfterTwoTransientFailures ==
    /\ (Len(gcLog) = 2 /\ AllTransient(gcLog)) => ~GcDone
    /\ (Len(gcLog) = 3 /\ AllTransient(SubSeq(gcLog, 1, 2)) /\ gcLog[3].kind = "found")
       => /\ GcDone
          /\ gcResult = GeocodingSuccess(gcLog[3])

C13_Witness ==
    /\ gcLog = <<Transient("network"), Transient("rate-limit"), Found(49, -123)>>
    /\ gcResult = [kind |-> "coordinate", lat |-> 49, lon |-> -123]

\* C14: a definitive "not found" is not retried: resolve fails on the first
\* such answer, after strictly fewer upstream calls than the maximum when the
\* upstream always answers "not found"; transient answers are retried while
\* attempts are left.
C14_NotFoundAbortsEarly ==
    /\ (gcLog # <<>> /\ gcLog[Len(gcLog)].kind = "not-found")
       => /\ GcDone
          /\ gcResult = GeocodingFailure("not-found")
    /\ (gcLog # <<>> /\ \A i \in 1..Len(gcLog) : gcLog[i].kind = "not-found")
       => /\ Len(gcLog) = 1
          /\ gcAttempts < MaxAttempts
    /\ (gcLog # <<>> /\ gcLog[Len(gcLog)].kind = "transient"
                     /\ Len(gcLog) < MaxAttempts)
       => ~GcDone

C14_Witness ==
    /\ gcLog = <<NotFound>>
    /\ GcDone
    /\ gcAttempts = 1
    /\ gcResult = GeocodingFailure("not-found")

\* C15 (safety part): resolve never makes more than the maximum number of
\* upstream attempts, and when every attempt failed transiently it returns a
\* GeocodingFailure carrying the cause of the last attempt.
C15_Bounded ==
    /\ gcAttempts <= MaxAttempts
    /\ Len(gcLog) <= gcAttempts
    /\ (GcDone /\ AllTransient(gcLog))
       => /\ Len(gcLog) = MaxAttempts
          /\ gcResult = GeocodingFailure(gcLog[Len(gcLog)].cause)

\* C15: in every execution resolve makes at most the maximum number of
\* upstream attempts and then terminates, and exhausted retries give a
\* GeocodingFailure with the cause of the last attempt.
C15_BoundedAttemptsThenTerminates == []C15_Bounded /\ <>GcDone

C15_Witness ==
    /\ GcDone
    /\ gcAttempts = MaxAttempts
    /\ gcLog = <<Transient("network"), Transient("5xx"), Transient("rate-limit")>>
    /\ gcResult = GeocodingFailure("rate-limit")

-----------------------------------------------------------------------------
(* BoundaryIndex.locate: first containing RegionPolygon in stored order,     *)
(* ray casting (even-odd) per ring with closed edges, holes excluded, and a  *)
(* nearest-region fallback within a tolerance. Coordinates are <<x, y>> on   *)
(* an integer grid; distances are compared as squared fractions.             *)

\* the configured tolerance of the fallback
Tolerance == 1

Ring4(a, b, c, d) == <<a, b, c, d>>

\* the BoundarySet: provinces in stored order, each with its regions in
\* stored order; PRINCE and QUEENS share the edge x = 2, YORK has a hole
BoundarySet ==
    << [provinceCode |-> "PE",
        regions |->
            << [regionName |-> "PRINCE",
                outer |-> Ring4(<<0, 0>>, <<2, 0>>, <<2, 2>>, <<0, 2>>),
                holes |-> <<>>],
               [regionName |-> "QUEENS",
                outer |-> Ring4(<<2, 0>>, <<4, 0>>, <<4, 2>>, <<2, 2>>),
                holes |-> <<>>] >>],
       [provinceCode |-> "NB",
        regions |->
            << [regionName |-> "YORK",
                outer |-> Ring4(<<0, 4>>, <<5, 4>>, <<5, 8>>, <<0, 8>>),
                holes |-> <<Ring4(<<1, 5>>, <<4, 5>>, <<4, 7>>, <<1, 7>>)>>],
               [regionName |-> "SUNBURY",
                outer |-> <<(<<6, 4>>), (<<9, 4>>), (<<6, 7>>)>>,
                holes |-> <<>>] >>] >>

RECURSIVE RegionsFrom(_)
RegionsFrom(i) ==
    IF i > Len(BoundarySet) THEN <<>>
    ELSE [j \in 1..Len(BoundarySet[i].regions) |->
             [provinceCode |-> BoundarySet[i].provinceCode,
              regionName |-> BoundarySet[i].regions[j].regionName,
              outer |-> BoundarySet[i].regions[j].outer,
              holes |-> BoundarySet[i].regions[j].holes]]
         \o RegionsFrom(i + 1)

\* every RegionPolygon, in the iteration order of locate
RegionPolygons == RegionsFrom(1)

\* the edges of a ring: the last point connects to the first
RingEdges(ring) ==
    {<<ring[i], ring[(i % Len(ring)) + 1]>> : i \in 1..Len(ring)}

Cross(a, b, p) == (b[1] - a[1]) * (p[2] - a[2]) - (b[2] - a[2]) * (p[1] - a[1])
Dot(a, b, p) == (b[1] - a[1]) * (p[1] - a[1]) + (b[2] - a[2]) * (p[2] - a[2])
Min(x, y) == IF x <= y THEN x ELSE y
Max(x, y) == IF x <= y THEN y ELSE x

\* p lies on the closed segment a-b
OnSegment(p, a, b) ==
    /\ Cross(a, b, p) = 0
    /\ Min(a[1], b[1]) <= p[1] /\ p[1] <= Max(a[1], b[1])
    /\ Min(a[2], b[2]) <= p[2] /\ p[2] <= Max(a[2], b[2])

\* the ray from p towards +x crosses the edge a-b
RayCrosses(p, a, b) ==
    /\ (a[2] > p[2]) # (b[2] > p[2])
    /\ IF b[2] > a[2]
       THEN (p[1] - a[1]) * (b[2] - a[2]) < (p[2] - a[2]) * (b[1] - a[1])
       ELSE (p[1] - a[1]) * (b[2] - a[2]) > (p[2] - a[2]) * (b[1] - a[1])

\* even-odd rule; a point on an edge of the ring is inside
InRing(p, ring) ==
    \/ \E e \in RingEdges(ring) : OnSegment(p, e[1], e[2])
    \/ Cardinality({e \in RingEdges(ring) : RayCrosses(p, e[1], e[2])}) % 2 = 1

\* inside the outer ring and not inside an odd number of holes
Contains(region, p) ==
    /\ InRing(p, region.outer)
    /\ Cardinality({h \in 1..Len(region.holes) : InRing(p, region.holes[h])}) % 2 = 0

\* squared distance from p to the segment a-b, as a fraction <<num, den>>
SegmentDist2(p, a, b) ==
    LET len2 == Dot(a, b, b)
        dot  == Dot(a, b, p)
    IN  IF dot <= 0 THEN <<Dot(a, p, p), 1>>
        ELSE IF dot >= len2 THEN <<Dot(b, p, p), 1>>
        ELSE <<Cross(a, b, p) * Cross(a, b, p), len2>>

FracLeq(f, g) == f[1] * g[2] <= g[1] * f[2]

\* squared minimum distance from p to the outer ring of a region
OuterDist2(region, p) ==
    LET ds == {SegmentDist2(p, e[1], e[2]) : e \in RingEdges(region.outer)}
    IN  CHOOSE f \in ds : \A g \in ds : FracLeq(f, g)

WithinTolerance_Always(f) == TRUE

\* the distance is within the configured tolerance
WithinTolerance(f) == f[1] <= Tolerance * Tolerance * f[2]

RECURSIVE FirstContaining(_, _)
FirstContaining(p, i) ==
    IF i > Len(RegionPolygons) THEN 0
    ELSE IF Contains(RegionPolygons[i], p) THEN i
    ELSE FirstContaining(p, i + 1)

RECURSIVE LastContaining(_, _)
LastContaining(p, i) ==
    IF i = 0 THEN 0
    ELSE IF Contains(RegionPolygons[i], p) THEN i
    ELSE LastContaining(p, i - 1)

ContainingRegion_Last(p) == LastContaining(p, Len(RegionPolygons))

\* the index of the first RegionPolygon, in stored order, that contains p; 0 if none
ContainingRegion(p) == FirstContaining(p, 1)

RECURSIVE NearestFrom(_, _, _)
NearestFrom(p, i, best) ==
    IF i > Len(RegionPolygons) THEN best
    ELSE IF ~FracLeq(OuterDist2(RegionPolygons[best], p), OuterDist2(RegionPolygons[i], p))
    THEN NearestFrom(p, i + 1, i)
    ELSE NearestFrom(p, i + 1, best)

\* the index of the region whose outer ring is nearest to p
NearestRegion(p) == NearestFrom(p, 2, 1)

Resolved(p, i) ==
    [kind |-> "resolved", coordinate |-> p,
     provinceCode |-> RegionPolygons[i].provinceCode,
     regionName |-> RegionPolygons[i].regionName]
LocateNotFound == [kind |-> "not-found", reason |-> "outside supported regions"]

locate(p) ==
    IF ContainingRegion(p) # 0 THEN Resolved(p, ContainingRegion(p))
    ELSE IF WithinTolerance(OuterDist2(RegionPolygons[NearestRegion(p)], p))
    THEN Resolved(p, NearestRegion(p))
    ELSE LocateNotFound

Points == {<<x, y>> : x \in -2..GridSize, y \in -2..GridSize}

LocateInit ==
    /\ RouteIdle
    /\ ClassifyIdle
    /\ GeocodeIdle
    /\ CoordinatorIdle
    /\ ClientIdle
    /\ point \in Points
    /\ located = <<>>

\* locate(coordinate), called once more with the same coordinate
Locate ==
    /\ Len(located) < MaxLocateCalls
    /\ located' = Append(located, locate(point))
    /\ UNCHANGED point
    /\ UNCHANGED nonLocateVars

LocateNext == Locate

LocateSpec == LocateInit /\ [][LocateNext]_vars

-----------------------------------------------------------------------------
(* Properties of BoundaryIndex.locate, under LocateSpec *)

Containing(p) == {i \in 1..Len(RegionPolygons) : Contains(RegionPolygons[i], p)}
RegionOf(r) == <<r.provinceCode, r.regionName>>

\* C16: a coordinate contained in more than one RegionPolygon is attributed to
\* the first containing one in stored order, and repeated calls with the same
\* coordinate return the same region every time.
C16_FirstContainingRegionWins ==
    /\ \A k \in 1..Len(located) :
        Containing(point) # {} =>
            \E i \in Containing(point) :
                /\ \A j \in Containing(point) : i <= j
                /\ located[k].kind = "resolved"
                /\ RegionOf(located[k]) = RegionOf(RegionPolygons[i])
    /\ \A k \in 1..Len(located) :
        point \in {<<2, 0>>, <<2, 1>>, <<2, 2>>} =>
            RegionOf(located[k]) = <<"PE", "PRINCE">>
    /\ \A k, m \in 1..Len(located) : located[k] = located[m]

C16_Witness ==
    /\ point = <<2, 1>>
    /\ Cardinality(Containing(point)) = 2
    /\ Len(located) = 2
    /\ RegionOf(located[1]) = <<"PE", "PRINCE">>
    /\ RegionOf(located[2]) = <<"PE", "PRINCE">>

\* the squared distance from p to the nearest outer ring is at most d * d
SomeRingWithin(p, d) ==
    \E i \in 1..Len(RegionPolygons) :
        \E e \in RingEdges(RegionPolygons[i].outer) :
            LET f == SegmentDist2(p, e[1], e[2]) IN f[1] <= d * d * f[2]

\* C17: a coordinate contained in no polygon is attributed to the nearest
\* region when its distance to an outer ring is within the tolerance, and is
\* NotFound (a normal result) otherwise; farther than the tolerance from every
\* polygon it is always NotFound.
C17_NearestWithinToleranceElseNotFound ==
    \A k \in 1..Len(located) :
        Containing(point) = {} =>
            /\ SomeRingWithin(point, Tolerance) =>
                /\ located[k].kind = "resolved"
                /\ \E i \in 1..Len(RegionPolygons) :
                    /\ RegionOf(located[k]) = RegionOf(RegionPolygons[i])
                    /\ \A j \in 1..Len(RegionPolygons) :
                           FracLeq(OuterDist2(RegionPolygons[i], point),
                                   OuterDist2(RegionPolygons[j], point))
            /\ ~SomeRingWithin(point, Tolerance) => located[k] = LocateNotFound
            /\ point = <<5, 1>> => RegionOf(located[k]) = <<"PE", "QUEENS">>
            /\ point \in {<<6, 1>>, <<-2, -2>>, <<2, 6>>} => located[k] = LocateNotFound

C17_Witness ==
    \/ /\ point = <<5, 1>>
       /\ Len(located) = 1
       /\ Containing(point) = {}
       /\ RegionOf(located[1]) = <<"PE", "QUEENS">>
    \/ /\ point = <<9, 9>>
       /\ Len(located) = 1
       /\ located[1] = LocateNotFound

-----------------------------------------------------------------------------
(* AggregationCoordinator.getReport: the feeds of the province are fetched   *)
(* concurrently, each under its per-call timeout, and joined; a failed       *)
(* primary feed gives the degraded report; a request-level timeout cancels   *)
(* what is outstanding and gives the degraded report.                        *)

\* the province-wide feed is the primary one
Primary == "province"
\* the feeds a province can have: the primary one, and a region-specific one
FeedSets == {{"province"}, {"province", "enhanced"}}

Pending == [state |-> "pending"]
SubSuccess(v) == [state |-> "success", value |-> v]
SubFailure(kind) == [state |-> "failure", kind |-> kind]
SubTimeout == [state |-> "failure", kind |-> "timeout"]
Cancelled == [state |-> "cancelled"]

\* what a feed can deliver
FeedValues(f) ==
    IF f = Primary THEN {"BANNED", "RESTRICTED", "OPEN"} ELSE {"zone-A", "zone-B"}
FailureKinds == {"fetch", "parse"}

NormalReport(status, extra) ==
    [kind |-> "report", status |-> status, source |-> "official",
     fallback |-> FALSE, extra |-> extra]
DegradedReport ==
    [kind |-> "report", status |-> "UNKNOWN", source |-> "fallback",
     fallback |-> TRUE, extra |-> "none"]

ExtraOf(subs) ==
    IF \E f \in DOMAIN subs : f # Primary /\ subs[f].state = "success"
    THEN subs[CHOOSE f \in DOMAIN subs : f # Primary /\ subs[f].state = "success"].value
    ELSE "none"

BuildReport_FailFast(subs) ==
    IF \E f \in DOMAIN subs : subs[f].state = "failure"
    THEN [kind |-> "error", cause |-> "sub-fetch failed"]
    ELSE NormalReport(subs[Primary].value, ExtraOf(subs))

\* the report built from the joined results
BuildReport(subs) ==
    IF subs[Primary].state = "success"
    THEN NormalReport(subs[Primary].value, ExtraOf(subs))
    ELSE DegradedReport

ReportAfterRequestTimeout_Partial(subs) ==
    IF subs[Primary].state = "success"
    THEN NormalReport(subs[Primary].value, ExtraOf(subs))
    ELSE DegradedReport

\* a request-level timeout forces the degraded path
ReportAfterRequestTimeout(subs) == DegradedReport

\* getReport(resolvedLocation): every feed of the province is issued at once
GetReport(feeds) ==
    /\ coPc = "idle"
    /\ coPc' = "fetching"
    /\ coSub' = [f \in feeds |-> Pending]
    /\ UNCHANGED <<coReport, coTimedOut, coLate>>
    /\ UNCHANGED nonCoordinatorVars

\* the sub-fetch f ends with outcome: a Success, a Failure, or its per-call timeout
SubFetchEnds(f, outcome) ==
    /\ coPc = "fetching"
    /\ f \in DOMAIN coSub
    /\ coSub[f] = Pending
    /\ coSub' = [coSub EXCEPT ![f] = outcome]
    /\ UNCHANGED <<coPc, coReport, coTimedOut, coLate>>
    /\ UNCHANGED nonCoordinatorVars

SubOutcomes(f) ==
    {SubSuccess(v) : v \in FeedValues(f)}
        \cup {SubFailure(k) : k \in FailureKinds} \cup {SubTimeout}

\* all sub-fetches ended: the results are joined and the report is built
JoinResults ==
    /\ coPc = "fetching"
    /\ \A f \in DOMAIN coSub : coSub[f] # Pending
    /\ coPc' = "done"
    /\ coReport' = BuildReport(coSub)
    /\ UNCHANGED <<coSub, coTimedOut, coLate>>
    /\ UNCHANGED nonCoordinatorVars

\* the request-level timeout fires while sub-fetches are outstanding
RequestTimeout ==
    /\ coPc = "fetching"
    /\ \E f \in DOMAIN coSub : coSub[f] = Pending
    /\ coSub' = [f \in DOMAIN coSub |-> IF coSub[f] = Pending THEN Cancelled ELSE coSub[f]]
    /\ coTimedOut' = TRUE
    /\ coPc' = "done"
    /\ coReport' = ReportAfterRequestTimeout(coSub)
    /\ UNCHANGED coLate
    /\ UNCHANGED nonCoordinatorVars

\* the result of a cancelled sub-fetch arrives after the timeout: it is dropped
LateResult(f, v) ==
    /\ coPc = "done"
    /\ f \in DOMAIN coSub
    /\ coSub[f] = Cancelled
    /\ \A l \in coLate : l[1] # f
    /\ coLate' = coLate \cup {<<f, v>>}
    /\ UNCHANGED <<coPc, coSub, coReport, coTimedOut>>
    /\ UNCHANGED nonCoordinatorVars

CoordinatorNext ==
    \/ \E feeds \in FeedSets : GetReport(feeds)
    \/ \E f \in {"province", "enhanced"} : \E o \in SubOutcomes(f) : SubFetchEnds(f, o)
    \/ JoinResults
    \/ RequestTimeout
    \/ \E f \in {"province", "enhanced"} : \E v \in FeedValues(f) : LateResult(f, v)

CoordinatorSpec == Init /\ [][CoordinatorNext]_vars

-----------------------------------------------------------------------------
(* Two executions of GET on one event loop.  A handler runs from one await  *)
(* to the next without interruption; at an await the other execution may    *)
(* continue.  The locals of the execution that is not running are parked.   *)
(* The module of the route declares no variable of its own: the two         *)
(* executions share the imported library functions only.                    *)

\* the requests the two clients send
ConcurrentInputs ==
    { <<Given(<<"1", "9">>), Given(<<"-", "1">>), Absent>>,
      <<Absent, Absent, Given(<<"V">>)>>,
      <<Given(<<"x">>), Given(<<"1">>), Absent>>,
      <<Absent, Given(<<"1">>), Absent>> }

ConcurrentRequest ==
    /\ pc = "idle"
    /\ \E i \in ConcurrentInputs : Start(i[1], i[2], i[3])

Switch_SharedProvince ==
    /\ parked' = Locals
    /\ pc' = parked.pc
    /\ latitude' = parked.latitude
    /\ longitude' = parked.longitude
    /\ location' = parked.location
    /\ lat' = parked.lat
    /\ lon' = parked.lon
    /\ response' = parked.response
    /\ calls' = parked.calls
    /\ outcomes' = parked.outcomes
    /\ geocoded' = parked.geocoded
    /\ UNCHANGED <<province, county>>
    /\ UNCHANGED nonConcurrentVars

\* the running execution is suspended at its await (or has returned) and the
\* other one continues: each has its own locals
Switch ==
    /\ parked' = Locals
    /\ pc' = parked.pc
    /\ latitude' = parked.latitude
    /\ longitude' = parked.longitude
    /\ location' = parked.location
    /\ lat' = parked.lat
    /\ lon' = parked.lon
    /\ province' = parked.province
    /\ county' = parked.county
    /\ response' = parked.response
    /\ calls' = parked.calls
    /\ outcomes' = parked.outcomes
    /\ geocoded' = parked.geocoded
    /\ UNCHANGED nonConcurrentVars

ConcurrentNext ==
    \/ ConcurrentRequest
    \/ \E coords \in GeocodeAnswers : GeocodeReturn(coords)
    \/ \E d \in DetectAnswers : DetectReturn(d)
    \/ \E r \in ScrapeAnswers : ScrapeReturn(r)
    \/ Catch
    \/ Switch

ConcurrentSpec == Init /\ [][ConcurrentNext]_vars

\* an upstream call that rejected
Throws == [thrown |-> TRUE]

AloneAfterReport(a, o, d, r, cs, os) ==
    IF r = Throws
    THEN [calls |-> cs, response |-> InternalServerError,
          outcomes |-> Append(os, [fn |-> "scrapeBurnRestrictions", what |-> "throw"])]
    ELSE [calls |-> cs,
          response |-> IF RestrictionsMissing(r) THEN CouldNotFetch
                       ELSE Success(a, o, d.province, d.county, r),
          outcomes |-> Append(os, [fn |-> "scrapeBurnRestrictions",
                                   what |-> IF r = NoReport THEN "null" ELSE "value"])]

AloneAfterCoords(a, o, d, r, cs, os) ==
    IF isNaN(a) \/ isNaN(o)
    THEN [calls |-> cs, outcomes |-> os, response |-> InvalidCoordinates]
    ELSE LET cs1 == Append(cs, Call("detectProvinceAndCounty", <<a, o>>))
         IN  IF d = Throws
             THEN [calls |-> cs1, response |-> InternalServerError,
                   outcomes |-> Append(os, [fn |-> "detectProvinceAndCounty",
                                            what |-> "throw"])]
             ELSE LET os1 == Append(os,
                          [fn |-> "detectProvinceAndCounty",
                           what |-> IF d.province \in {Null, ""} THEN "null"
                                    ELSE "value"])
                  IN  IF ProvinceMissing(d.province)
                      THEN [calls |-> cs1, outcomes |-> os1,
                            response |-> OutsideSupported]
                      ELSE AloneAfterReport(a, o, d, r,
                               Append(cs1, Call("scrapeBurnRestrictions",
                                                <<d.province, d.county, a, o>>)),
                               os1)

\* GET run alone on the request (la, lo, loc) with the upstream answers g, d, r:
\* the calls it makes, what they answer, and its response
AloneRun(la, lo, loc, g, d, r) ==
    IF NeedsGeocode(la, lo, loc)
    THEN LET cs == <<Call("geocodeLocation", <<loc.text>>)>>
         IN  IF g = Throws
             THEN [calls |-> cs, response |-> InternalServerError,
                   outcomes |-> <<[fn |-> "geocodeLocation", what |-> "throw"]>>]
             ELSE LET os == <<[fn |-> "geocodeLocation",
                               what |-> IF g = NoCoords THEN "null" ELSE "value"]>>
                  IN  IF g = NoCoords
                      THEN [calls |-> cs, outcomes |-> os,
                            response |-> IF CoordsMissing(g) THEN GeocodeNotFound
                                         ELSE InternalServerError]
                      ELSE AloneAfterCoords(ResolvedFromGeocode(g)[1],
                                            ResolvedFromGeocode(g)[2], d, r, cs, os)
    ELSE IF HasCoordinates(la, lo)
    THEN AloneAfterCoords(parseFloat(la.text), parseFloat(lo.text), d, r, <<>>, <<>>)
    ELSE [calls |-> <<>>, outcomes |-> <<>>, response |-> CoordinatesRequired]

\* the execution whose locals are l ended as some run alone ends
RanAsAlone(l) ==
    \E g \in GeocodeAnswers \cup {Throws}, d \in DetectAnswers \cup {Throws},
       r \in ScrapeAnswers \cup {Throws} :
        LET alone == AloneRun(l.latitude, l.longitude, l.location, g, d, r)
        IN  /\ l.calls = alone.calls
            /\ l.outcomes = alone.outcomes
            /\ l.response = alone.response

InFlight(l) == l.pc \in {"geocoding", "detecting", "scraping"}

\* C21: with two requests interleaved at their awaits in any way, each
\* response is the response of a run alone of that request with the upstream
\* calls and answers that this request made and got.
C21_ConcurrentRequestsIndependent ==
    /\ pc = "responded" => RanAsAlone(Locals)
    /\ parked.pc = "responded" => RanAsAlone(parked)

C21_Witness ==
    /\ pc = "responded"
    /\ response.status = 200
    /\ parked.pc = "scraping"
    /\ parked.province # province
    /\ RanAsAlone(Locals)

-----------------------------------------------------------------------------
(* Properties of AggregationCoordinator.getReport, under CoordinatorSpec *)

Feeds == DOMAIN coSub
TimedOutFeeds == {f \in Feeds : coSub[f] = SubTimeout}
Settled(f) == coSub[f].state \in {"success", "failure"}
\* getReport returned after joining every sub-fetch
Joined == coPc = "done" /\ ~coTimedOut
\* the report carries what the feed f delivered
UsedInReport(f) ==
    IF f = Primary
    THEN coReport.status = coSub[f].value /\ ~coReport.fallback
    ELSE coReport.extra = coSub[f].value

\* C18 as stated: when one of several concurrent sub-fetches exceeds its
\* per-call timeout, the request returns a report and the result of every
\* other sub-fetch is used in it.
C18_OtherResultsAlwaysUsed ==
    (Joined /\ Cardinality(Feeds) > 1 /\ Cardinality(TimedOutFeeds) = 1) =>
        /\ coReport.kind = "report"
        /\ \A g \in Feeds \ TimedOutFeeds :
               coSub[g].state = "success" => UsedInReport(g)

C18_Joined ==
    (Joined /\ TimedOutFeeds # {}) =>
        /\ coReport.kind = "report"
        /\ \A g \in Feeds : Settled(g)
        /\ coSub[Primary].state = "success" =>
               \A g \in Feeds : coSub[g].state = "success" => UsedInReport(g)
        /\ coSub[Primary].state # "success" => coReport = DegradedReport

C18_TimeoutStep ==
    \A f \in Feeds :
        (coSub[f] = Pending /\ coSub'[f] = SubTimeout) =>
            /\ \A g \in Feeds \ {f} : coSub'[g] = coSub[g]
            /\ coPc' = coPc
            /\ coReport' = coReport

\* C18: a sub-fetch that exceeds its per-call timeout is recorded as a Failure
\* of that sub-fetch alone; every sub-fetch is joined and the request returns
\* a report; the results of the other sub-fetches are used in it when the
\* primary feed succeeded, and when the primary feed is the one that failed
\* the report is the degraded one.
C18_TimeoutFailsOnlyThatSubFetch == []C18_Joined /\ [][C18_TimeoutStep]_vars

C18_Witness ==
    /\ Joined
    /\ TimedOutFeeds = {"enhanced"}
    /\ coSub[Primary].state = "success"
    /\ coReport = NormalReport(coSub[Primary].value, "none")

C19_TimedOut ==
    coTimedOut =>
        /\ coPc = "done"
        /\ \A f \in Feeds : coSub[f] # Pending
        /\ coReport = DegradedReport

C19_TimeoutStep ==
    /\ (~coTimedOut /\ coTimedOut') =>
           \A f \in Feeds :
               coSub'[f] = IF coSub[f] = Pending THEN Cancelled ELSE coSub[f]
    /\ coTimedOut => coReport' = coReport

\* C19: when the request-level timeout fires with sub-fetches outstanding,
\* each outstanding sub-fetch is cancelled and getReport returns the degraded
\* report; a result arriving afterwards leaves the report as it is.
C19_RequestTimeoutDegrades == []C19_TimedOut /\ [][C19_TimeoutStep]_vars

C19_Witness ==
    /\ coTimedOut
    /\ coSub[Primary].state = "success"
    /\ \E l \in coLate : l[1] = "enhanced"
    /\ coReport = DegradedReport

-----------------------------------------------------------------------------
(* The route handler fetches the restrictions once, under Spec *)

\* C20: within one request scrapeBurnRestrictions is called at most once, and
\* once it has failed (null or exception) the request is answered without
\* another call.
C20_SourceFetchedAtMostOnce ==
    /\ ScrapeCalls <= 1
    /\ SourceFetchFailed =>
           /\ Responded
           /\ calls[Len(calls)].fn = "scrapeBurnRestrictions"

C20_Witness ==
    /\ Responded
    /\ SourceFetchFailed
    /\ ScrapeCalls = 1

-----------------------------------------------------------------------------
(* The component FireRestrictionApp.  An action is one event handler, timer *)
(* callback or promise continuation, together with the render it causes and *)
(* the effects that run after that render.  The hook useGeolocation is the  *)
(* environment: it delivers coordinates, a permission, and the completion   *)
(* of requestLocation().                                                    *)

Permissions == {"unknown", "prompt", "granted", "denied"}
BrowserCoordinates ==
    { [kind |-> "coords", latitude |-> 46, longitude |-> -63],
      [kind |-> "coords", latitude |-> 49, longitude |-> -123] }

\* the card mapApiToUICard built from the response to request number id
Card(id) == [kind |-> "card", request |-> id]
\* the message of the error thrown for the response to request number id
SearchError(id) == [kind |-> "error", request |-> id]
\* 'Location request timed out. Please try again or search manually.'
LocationTimedOut == [kind |-> "error", message |-> "Location request timed out"]

\* isLoading of useGeolocation
isLocationLoading == locating # NullState

AppState ==
    [isLoading |-> isLoading, searchResults |-> searchResults, error |-> error,
     showLocationPermission |-> showLocationPermission,
     hasRequestedLocation |-> hasRequestedLocation,
     locationTimeout |-> locationTimeout, coordinates |-> coordinates,
     permission |-> permission, hasRequestedBefore |-> hasRequestedBefore,
     locating |-> locating, searches |-> searches, requests |-> requests,
     timers |-> timers, timerCount |-> timerCount, showTimer |-> showTimer]

\* handleSearch from its entry to await fetch(url)
handleSearch(s, by, after) ==
    [s EXCEPT !.isLoading = TRUE,
              !.error = NullState,
              !.searchResults = NullState,
              !.searches = @ \cup {Len(s.requests) + 1},
              !.requests = Append(@, [by |-> by, after |-> after])]

\* the cleanup of the effect on [locationTimeout]: it clears the timer that
\* the previous render held
CleanupLocationTimeout(old, new) ==
    IF new.locationTimeout # old.locationTimeout /\ old.locationTimeout # NoTimer
    THEN [new EXCEPT !.timers = @ \ {old.locationTimeout}]
    ELSE new

\* the condition under which the permission card is scheduled to show
ShowCondition(s) ==
    /\ ~s.hasRequestedLocation
    /\ ~s.hasRequestedBefore
    /\ s.permission \in {"unknown", "prompt", "denied"}

\* the effect on [hasRequestedLocation, hasRequestedBefore, permission]: its
\* cleanup clears the 1-second timer, then the timer is armed again or not
ShowEffect(old, new) ==
    IF <<new.hasRequestedLocation, new.hasRequestedBefore, new.permission>>
           # <<old.hasRequestedLocation, old.hasRequestedBefore, old.permission>>
    THEN [new EXCEPT !.showTimer = ShowCondition(new)]
    ELSE new

\* if (coordinates && !searchResults && !isLoading)
AutoSearchDue(s) ==
    /\ s.coordinates # NullState
    /\ s.searchResults = NullState
    /\ ~s.isLoading

\* "Auto-search when coordinates are obtained"
AutoSearchEffect(s, event) ==
    IF AutoSearchDue(s) THEN handleSearch(s, "effect", event) ELSE s

\* the effects that run after the render of new, old being the render before
Effects(old, new, event) ==
    AutoSearchEffect(ShowEffect(old, CleanupLocationTimeout(old, new)), event)

\* the render of new and its effects; a behaviour sends at most MaxSearches requests
Commit(new, event) ==
    /\ Len(Effects(AppState, new, event).requests) <= MaxSearches
    /\ LET s == Effects(AppState, new, event)
       IN  /\ isLoading' = s.isLoading
           /\ searchResults' = s.searchResults
           /\ error' = s.error
           /\ showLocationPermission' = s.showLocationPermission
           /\ hasRequestedLocation' = s.hasRequestedLocation
           /\ locationTimeout' = s.locationTimeout
           /\ coordinates' = s.coordinates
           /\ permission' = s.permission
           /\ hasRequestedBefore' = s.hasRequestedBefore
           /\ locating' = s.locating
           /\ searches' = s.searches
           /\ requests' = s.requests
           /\ timers' = s.timers
           /\ timerCount' = s.timerCount
           /\ showTimer' = s.showTimer
    /\ UNCHANGED nonAppVars

CardVisible_ShowOnly == showLocationPermission

\* {showLocationPermission && !hasRequestedLocation && <LocationPermissionCard/>}
CardVisible == showLocationPermission /\ ~hasRequestedLocation

\* onSubmit of the search input with a non-empty text: handleSearch(text)
Submit ==
    Commit(handleSearch(AppState, "user", "submit"), "submit")

\* handleSearch after its awaits: the card on a good response, the error
\* otherwise, and setIsLoading(false) in the finally
SearchCompletes(id, ok) ==
    /\ id \in searches
    /\ Commit([AppState EXCEPT
                  !.searches = @ \ {id},
                  !.searchResults = IF ok THEN Card(id) ELSE @,
                  !.error = IF ok THEN @ ELSE SearchError(id),
                  !.isLoading = FALSE],
              IF ok THEN "searchSucceeded" ELSE "searchFailed")

\* onClose of the result card, which is rendered when searchResults && !isLoading
clearResults ==
    /\ searchResults # NullState
    /\ ~isLoading
    /\ Commit([AppState EXCEPT !.searchResults = NullState], "clearResults")

\* handleLocationRequest from its entry to await requestLocation(): the card's
\* button or the "Use My Location" button was pressed
handleLocationRequest ==
    /\ ~isLocationLoading
    /\ CardVisible \/ coordinates = NullState
    /\ timerCount < MaxLocationRequests
    /\ Commit([AppState EXCEPT
                  !.hasRequestedLocation = TRUE,
                  !.timerCount = @ + 1,
                  !.timers = @ \cup {timerCount + 1},
                  !.locationTimeout = timerCount + 1,
                  !.locating = [kind |-> "locating", timer |-> timerCount + 1,
                                captured |-> locationTimeout]],
              "handleLocationRequest")

\* requestLocation() completed, with coordinates c or with none: the hook
\* updates its state and the finally of handleLocationRequest runs with the
\* locationTimeout of the render in which the handler was created
LocationCompletes(c, p) ==
    /\ locating # NullState
    /\ Commit([AppState EXCEPT
                  !.locating = NullState,
                  !.coordinates = IF c = NullState THEN @ ELSE c,
                  !.permission = p,
                  !.timers = IF locating.captured # NoTimer
                             THEN @ \ {locating.captured} ELSE @,
                  !.locationTimeout = IF locating.captured # NoTimer
                                      THEN NoTimer ELSE @],
              "locationCompleted")

\* the callback of a 15-second timer
LocationTimerFires(t) ==
    /\ t \in timers
    /\ Commit([AppState EXCEPT !.timers = @ \ {t}, !.error = LocationTimedOut],
              "locationTimeout")

handleDismissLocation ==
    /\ CardVisible
    /\ Commit([AppState EXCEPT !.showLocationPermission = FALSE,
                               !.hasRequestedLocation = TRUE],
              "handleDismissLocation")

\* the callback of the 1-second timer
ShowTimerFires ==
    /\ showTimer
    /\ Commit([AppState EXCEPT !.showTimer = FALSE,
                               !.showLocationPermission = TRUE],
              "showTimer")

\* requestLocationIfGranted(), called by the effect for a granted permission,
\* delivered coordinates
GrantedLocationArrives(c) ==
    /\ permission = "granted"
    /\ coordinates = NullState
    /\ ~isLocationLoading
    /\ ~hasRequestedLocation
    /\ Commit([AppState EXCEPT !.coordinates = c], "coordinates")

\* the component after its first render and effects
AppInit ==
    /\ RouteIdle /\ ClassifyIdle /\ GeocodeIdle /\ LocateIdle /\ CoordinatorIdle
    /\ ParkedIdle /\ PageIdle /\ CardIdle
    /\ isLoading = FALSE
    /\ searchResults = NullState
    /\ error = NullState
    /\ showLocationPermission = FALSE
    /\ hasRequestedLocation = FALSE
    /\ locationTimeout = NoTimer
    /\ coordinates = NullState
    /\ permission \in Permissions
    /\ hasRequestedBefore \in BOOLEAN
    /\ locating = NullState
    /\ searches = {}
    /\ requests = <<>>
    /\ timers = {}
    /\ timerCount = 0
    /\ showTimer = (~hasRequestedBefore /\ permission \in {"unknown", "prompt", "denied"})

AppNext ==
    \/ Submit
    \/ \E id \in 1..MaxSearches, ok \in BOOLEAN : SearchCompletes(id, ok)
    \/ clearResults
    \/ handleLocationRequest
    \/ \E c \in BrowserCoordinates : LocationCompletes(c, "granted")
    \/ \E p \in {permission, "denied"} : LocationCompletes(NullState, p)
    \/ \E t \in 1..MaxLocationRequests : LocationTimerFires(t)
    \/ handleDismissLocation
    \/ ShowTimerFires
    \/ \E c \in BrowserCoordinates : GrantedLocationArrives(c)

AppSpec == AppInit /\ [][AppNext]_vars

-----------------------------------------------------------------------------
(* Properties of FireRestrictionApp, under AppSpec *)

\* C22: a 15-second timer is armed only while the requestLocation() of the
\* handleLocationRequest call that armed it is pending: once that call has
\* completed the timer is cleared, so it cannot set the time-out error.
C22_LocationTimerClearedOnCompletion ==
    \A t \in timers : locating # NullState /\ locating.timer = t

C23_HiddenOnceRequested == hasRequestedLocation => ~CardVisible

\* C23: hasRequestedLocation never returns to false, and once it is true
\* (handleLocationRequest or handleDismissLocation has run) the permission
\* card is not visible, whatever showLocationPermission holds.
C23_CardHiddenAfterRequestOrDismiss ==
    /\ []C23_HiddenOnceRequested
    /\ [][hasRequestedLocation => hasRequestedLocation']_vars

C23_Witness ==
    /\ hasRequestedLocation
    /\ showLocationPermission
    /\ timerCount > 0
    /\ ~CardVisible

\* C26: isLoading is true whenever a handleSearch request is in flight.
C26_LoadingWhileAnySearchInFlight == searches # {} => isLoading

\* C27: when no search is in flight, the card or the search error on display
\* comes from the request that was started last.
C27_LastStartedSearchWins ==
    searches = {} =>
        /\ searchResults # NullState => searchResults.request = Len(requests)
        /\ "request" \in DOMAIN error => error.request = Len(requests)

\* C28: with isLoading false, error and searchResults are not both non-null.
C28_ResultAndErrorExclusive ==
    ~isLoading => ~(error # NullState /\ searchResults # NullState)

\* C29: no request is started by the failure of a search: after a search ends
\* in an error the next request comes from a user action or new coordinates.
C29_NoRequestAfterSearchError ==
    \A i \in 1..Len(requests) : requests[i].after # "searchFailed"

\* C30: closing the result card starts no request.
C30_NoRequestAfterClearResults ==
    \A i \in 1..Len(requests) : requests[i].after # "clearResults"

-----------------------------------------------------------------------------
(* HomePage: the form with a location name and two coordinates, and         *)
(* checkFireRestrictions, which sends one request to the route.             *)

FormLocations == {<<>>, <<"V">>}
FormLatitudes == {<<>>, <<"1", "9">>, <<"x">>}
FormLongitudes == {<<>>, <<"-", "1">>, <<"9">>}

PageMessage(m) == [kind |-> "error", message |-> m]
PleaseEnter == PageMessage("Please enter either a location name or both coordinates")
NetworkError == PageMessage("Network error")

\* if (!location && (!latitude || !longitude))
FormIncomplete == pageLocation = <<>> /\ (pageLatitude = <<>> \/ pageLongitude = <<>>)

\* if (location) url += `location=...` else url += `latitude=...&longitude=...`
BuildUrl ==
    IF pageLocation # <<>>
    THEN [location |-> Given(pageLocation), latitude |-> Absent, longitude |-> Absent]
    ELSE [location |-> Absent, latitude |-> Given(pageLatitude),
          longitude |-> Given(pageLongitude)]

\* checkFireRestrictions from its entry to await fetch(url)
checkFireRestrictions ==
    /\ ~pageLoading
    /\ pageUrl = NullState
    /\ IF FormIncomplete
       THEN /\ pageError' = PleaseEnter
            /\ UNCHANGED <<pageLoading, pageResult, pageUrl>>
       ELSE /\ pageLoading' = TRUE
            /\ pageError' = NullState
            /\ pageResult' = NullState
            /\ pageUrl' = BuildUrl
    /\ UNCHANGED <<pageLocation, pageLatitude, pageLongitude>>
    /\ UNCHANGED nonPageVars

\* the request reaches the route, which runs to its first await or return
RouteReceives ==
    /\ pc = "idle"
    /\ pageUrl # NullState
    /\ pageLoading
    /\ Start(pageUrl.latitude, pageUrl.longitude, pageUrl.location)

\* checkFireRestrictions after its awaits: setResult or setError, then the finally
PageResponse ==
    /\ pageLoading
    /\ pc = "responded"
    /\ IF response.status = 200
       THEN /\ pageResult' = response.body
            /\ UNCHANGED pageError
       ELSE /\ pageError' = PageMessage(response.body.error)
            /\ UNCHANGED pageResult
    /\ pageLoading' = FALSE
    /\ UNCHANGED <<pageLocation, pageLatitude, pageLongitude, pageUrl>>
    /\ UNCHANGED nonPageVars

\* fetch rejected: the catch and the finally
PageNetworkFailure ==
    /\ pageLoading
    /\ pc # "responded"
    /\ pageError' = NetworkError
    /\ pageLoading' = FALSE
    /\ UNCHANGED <<pageLocation, pageLatitude, pageLongitude, pageResult, pageUrl>>
    /\ UNCHANGED nonPageVars

\* the user has filled in the form
PageInit ==
    /\ RouteIdle /\ ClassifyIdle /\ GeocodeIdle /\ LocateIdle /\ CoordinatorIdle
    /\ ParkedIdle /\ AppIdle /\ CardIdle
    /\ pageLocation \in FormLocations
    /\ pageLatitude \in FormLatitudes
    /\ pageLongitude \in FormLongitudes
    /\ pageLoading = FALSE
    /\ pageResult = NullState
    /\ pageError = NullState
    /\ pageUrl = NullState

PageNext ==
    \/ checkFireRestrictions
    \/ RouteReceives
    \/ \E coords \in GeocodeAnswers : GeocodeReturn(coords)
    \/ \E d \in DetectAnswers : DetectReturn(d)
    \/ \E r \in ScrapeAnswers : ScrapeReturn(r)
    \/ Catch
    \/ PageResponse
    \/ PageNetworkFailure

PageSpec == PageInit /\ [][PageNext]_vars

FormHasEverything ==
    pageLocation # <<>> /\ pageLatitude # <<>> /\ pageLongitude # <<>>

\* C24: when the form holds a location name and both coordinates, the request
\* that checkFireRestrictions sends carries latitude and longitude, and the
\* route does not geocode the text.
C24_CoordinatesTakePrecedence ==
    (FormHasEverything /\ pageUrl # NullState) =>
        /\ Truthy(pageUrl.latitude)
        /\ Truthy(pageUrl.longitude)
        /\ ~Called("geocodeLocation")

-----------------------------------------------------------------------------
(* The province name on display: mapApiToUICard for the result card of      *)
(* FireRestrictionApp, getProvinceName for the badge of HomePage.           *)

\* the province and territory codes of a resolution
ResolutionCodes ==
    {"PE", "NB", "NS", "ON", "BC", "AB", "SK", "MB", "QC", "NL", "YT", "NT", "NU"}

\* the codes the route names in its "outside supported provinces" message
RouteCodes ==
    {"PEI", "NB", "NS", "ON", "BC", "AB", "SK", "MB", "QC", "NL", "YT", "NT", "NU"}

\* const provinceFullName: Record<string, string>
provinceFullName ==
    [PEI |-> "Prince Edward Island", NB |-> "New Brunswick", NS |-> "Nova Scotia",
     ON |-> "Ontario", BC |-> "British Columbia", AB |-> "Alberta",
     SK |-> "Saskatchewan", MB |-> "Manitoba", QC |-> "Quebec",
     NL |-> "Newfoundland and Labrador", YT |-> "Yukon",
     NT |-> "Northwest Territories", NU |-> "Nunavut"]

\* const provinces: Record<string, string> of getProvinceName
provinces ==
    [PE |-> "Prince Edward Island", NB |-> "New Brunswick", NS |-> "Nova Scotia",
     ON |-> "Ontario", QC |-> "Quebec", NL |-> "Newfoundland and Labrador",
     BC |-> "British Columbia", AB |-> "Alberta", SK |-> "Saskatchewan",
     MB |-> "Manitoba", YT |-> "Yukon Territory", NT |-> "Northwest Territories",
     NU |-> "Nunavut"]

\* provinces[code] || code
getProvinceName(code) ==
    IF code \in DOMAIN provinces THEN provinces[code] ELSE code

\* provinceFullName[data.province] || data.province || 'Unknown'
ProvinceNameOf(code) ==
    IF code \in DOMAIN provinceFullName THEN provinceFullName[code]
    ELSE IF code \notin {Null, ""} THEN code
    ELSE "Unknown"

\* Array.isArray(data.details) ? data.details : (data.details ? [data.details] : [...])
DetailsOf(details) ==
    IF details.kind = "list" THEN details.items
    ELSE IF details.kind = "text" THEN <<details.text>>
    ELSE <<"No additional details provided.">>

mapApiToUICard(data) ==
    [latitude |-> data.latitude,
     longitude |-> data.longitude,
     province |-> ProvinceNameOf(data.province),
     county |-> IF data.county \in {Null, ""} THEN "undefined" ELSE data.county,
     burn_restriction |->
        [status |-> mapStatusToUI(data.burn_status),
         details |-> DetailsOf(data.details),
         source |-> IF data.source \in {Null, ""} THEN "Unknown source" ELSE data.source,
         last_updated |-> IF data.last_updated \in {Null, ""} THEN "now"
                          ELSE data.last_updated]]

\* the response bodies handed to the two pages
ApiBodies ==
    [latitude : {46}, longitude : {-63},
     province : ResolutionCodes \cup {"PEI", Null},
     county : {Null, "PRINCE"},
     burn_status : {Absent, Given(<<"N", "o", " ", "F", "i", "r", "e", "s">>)},
     details : {[kind |-> "missing"], [kind |-> "text", text |-> "d"],
                [kind |-> "list", items |-> <<"d", "e">>]},
     source : {Null, "official"},
     last_updated : {Null}]

CardInit ==
    /\ RouteIdle /\ ClassifyIdle /\ GeocodeIdle /\ LocateIdle /\ CoordinatorIdle
    /\ ParkedIdle /\ AppIdle /\ PageIdle
    /\ apiData \in ApiBodies
    /\ uiCard = NullState
    /\ pageBadge = NullState

\* const uiData = mapApiToUICard(json)
BuildCard ==
    /\ uiCard = NullState
    /\ uiCard' = mapApiToUICard(apiData)
    /\ UNCHANGED <<apiData, pageBadge>>
    /\ UNCHANGED nonCardVars

\* {getProvinceName(result.province)} ({result.province})
RenderBadge ==
    /\ pageBadge = NullState
    /\ pageBadge' = [name |-> getProvinceName(apiData.province),
                     code |-> apiData.province]
    /\ UNCHANGED <<apiData, uiCard>>
    /\ UNCHANGED nonCardVars

CardNext == BuildCard \/ RenderBadge

CardSpec == CardInit /\ [][CardNext]_vars

\* C25: for each of the 13 codes of a resolution the result card shows the
\* full name of the jurisdiction and not the code, and the code is the one
\* that the route, the card's table and the HomePage table all use.
C25_CardShowsFullProvinceName ==
    (uiCard # NullState /\ apiData.province \in ResolutionCodes) =>
        /\ uiCard.province # apiData.province
        /\ apiData.province \in DOMAIN provinceFullName
        /\ apiData.province \in DOMAIN provinces
        /\ apiData.province \in RouteCodes

====
